---------------------------- MODULE Spec2Model ----------------------------
(* The Home component of src/src/app/page.tsx (first variant, lines 12-288): *)
(* recording session state, the speech recognition capability, the           *)
(* transcriptions table of the store and the asynchronous operations         *)
(* startRecording, stopRecording, loadSavedTranscriptions and                *)
(* deleteTranscription, each cut at its awaits.                              *)
EXTENDS Integers, Sequences, FiniteSets, TLC

VARIABLES
  mounted,              \* the mount effects have run
  capability,           \* window.SpeechRecognition || window.webkitSpeechRecognition exists
  recognition,          \* the handle is non-null
  isRecording,
  transcription,        \* the draft, a sequence of characters
  savedTranscriptions,  \* sequence of records [id, text, created_at]
  isLoading,
  showDeleteConfirm,    \* id of the armed row, or None
  recState,             \* the capability instance: "idle", "started", "stopping"
  handlers,             \* onresult / onerror are attached to the instance
  table,                \* the rows of the transcriptions table in the store
  nextId,               \* BIGSERIAL sequence of the table
  ops,                  \* every call of an async operation, with its position and history
  ev                    \* the event or continuation that ran last

vars == <<mounted, capability, recognition, isRecording, transcription,
          savedTranscriptions, isLoading, showDeleteConfirm, recState, handlers,
          table, nextId, ops, ev>>

----------------------------------------------------------------------------
(* Bounds *)
MaxOps == 4         \* calls of async operations in one behaviour
MaxInitRows == 1    \* rows in the table when the page is opened

None == 0           \* null of showDeleteConfirm; row ids start at 1
ErrorCodes == {"not-allowed", "network"}
\* values of new Date() and of created_at
Times == 0..1

\* the transcripts the recognition results join to: empty, whitespace only,
\* text, text with trailing whitespace
Drafts == {<<>>, <<" ">>, <<"a">>, <<"a", " ">>}

----------------------------------------------------------------------------
(* Pure functions *)

\* String.prototype.trim: drop leading and trailing whitespace
RECURSIVE TrimStart(_)
TrimStart(s) == IF s # <<>> /\ Head(s) = " " THEN TrimStart(Tail(s)) ELSE s

RECURSIVE TrimEnd(_)
TrimEnd(s) ==
  IF s # <<>> /\ s[Len(s)] = " " THEN TrimEnd(SubSeq(s, 1, Len(s) - 1)) ELSE s

TrimNone(s) == s

Trim(s) == TrimEnd(TrimStart(s))

\* !transcription.trim()
IsBlank(s) == Trim(s) = <<>>

RECURSIVE Perms(_)
Perms(S) ==
  IF S = {} THEN {<<>>}
  ELSE UNION {{<<x>> \o s : s \in Perms(S \ {x})} : x \in S}

IsSortedDesc(s) ==
  \A i \in 1..Len(s) : \A j \in 1..Len(s) : i < j => s[i].created_at >= s[j].created_at

SelectUnordered(T) == Perms(T)

\* select('*').order('created_at', {ascending: false}): the possible answers
SelectOrdered(T) == {s \in Perms(T) : IsSortedDesc(s)}

Ids(s) == {s[i].id : i \in 1..Len(s)}

\* rows rendered with Confirm/Cancel: showDeleteConfirm === item.id
ArmedRows(list, pending) == {i \in 1..Len(list) : list[i].id = pending}

----------------------------------------------------------------------------
(* Operation records *)

NewOp(kind) ==
  [kind |-> kind, pc |-> "done", resp |-> "none", data |-> <<>>,
   text |-> <<>>, id |-> None, parent |-> 0,
   probes |-> 0, inserts |-> 0, selects |-> 0, deletes |-> 0,
   probeRes |-> "none", res |-> "none",
   insText |-> <<>>, insAt |-> 0, mic |-> FALSE]

\* loadSavedTranscriptions up to its first await: the probe is issued
NewLoad(parent) ==
  [NewOp("load") EXCEPT !.pc = "probe", !.probes = 1, !.parent = parent]

Active(o) == o.pc # "done"

\* slots taken, counting the reload a running save or delete may still start
Reserved ==
  Len(ops) + Cardinality({i \in 1..Len(ops) :
                            Active(ops[i]) /\ ops[i].kind \in {"stop", "delete"}})

\* the event or continuation that ran, the operation or row it is about, and
\* whether it called alert()
Event(name, arg, alert) == [name |-> name, arg |-> arg, alert |-> alert, code |-> "none"]

----------------------------------------------------------------------------
\* created_at of the rows already in the table: alternating, so distinct
InitTime(i) == (i + 1) % 2

InitTables ==
  {{[id |-> i, text |-> <<"a">>, created_at |-> InitTime(i)] : i \in 1..n} :
     n \in 0..MaxInitRows}

Init ==
  /\ mounted = FALSE
  /\ capability \in BOOLEAN
  /\ recognition = FALSE
  /\ isRecording = FALSE
  /\ transcription = <<>>
  /\ savedTranscriptions = <<>>
  /\ isLoading = FALSE
  /\ showDeleteConfirm = None
  /\ recState = "idle"
  /\ handlers = FALSE
  /\ table \in InitTables
  /\ nextId = 1 + Cardinality(table)
  /\ ops = <<>>
  /\ ev = Event("init", 0, FALSE)

\* both mount effects: create the instance, then loadSavedTranscriptions()
Mount ==
  /\ ~mounted
  /\ mounted' = TRUE
  /\ recognition' = capability
  /\ isLoading' = TRUE
  /\ ops' = Append(ops, NewLoad(0))
  /\ ev' = Event("mount", Len(ops) + 1, FALSE)
  /\ UNCHANGED <<capability, isRecording, transcription, savedTranscriptions,
                 showDeleteConfirm, recState, handlers, table, nextId>>

----------------------------------------------------------------------------
(* Recording *)

StartGuardNone == TRUE

\* if (recognition)
StartGuard == recognition

\* startRecording up to its first await
startRecording ==
  /\ Reserved < MaxOps
  /\ IF StartGuard
       THEN /\ isLoading' = TRUE
            /\ ops' = Append(ops, [NewOp("start") EXCEPT !.pc = "permission", !.mic = TRUE])
       ELSE /\ isLoading' = isLoading
            /\ ops' = Append(ops, NewOp("start"))
  /\ ev' = Event("start", Len(ops) + 1, FALSE)
  /\ UNCHANGED <<mounted, capability, recognition, isRecording, transcription,
                 savedTranscriptions, showDeleteConfirm, recState, handlers,
                 table, nextId>>

\* the record button while it shows "Start Recording"
ClickStart ==
  /\ mounted /\ ~isLoading /\ ~isRecording
  /\ startRecording

\* getUserMedia resolved: attach the handlers, recognition.start(), which throws
\* InvalidStateError on an instance that has not ended
StartGranted(i) ==
  /\ ops[i].kind = "start" /\ ops[i].pc = "permission"
  /\ handlers' = TRUE
  /\ IF recState = "idle"
       THEN /\ recState' = "started"
            /\ isRecording' = TRUE
            /\ ops' = [ops EXCEPT ![i].pc = "done", ![i].res = "ok"]
       ELSE /\ recState' = recState
            /\ isRecording' = FALSE
            /\ ops' = [ops EXCEPT ![i].pc = "done", ![i].res = "throw"]
  /\ isLoading' = FALSE
  /\ ev' = Event("granted", i, recState # "idle")
  /\ UNCHANGED <<mounted, capability, recognition, transcription,
                 savedTranscriptions, showDeleteConfirm, table, nextId>>

DeniedSilent == FALSE

\* catch (error) { ...; alert('Unable to access microphone. ...'); }
DeniedAlerts == TRUE

\* getUserMedia rejected: catch, alert
StartDenied(i) ==
  /\ ops[i].kind = "start" /\ ops[i].pc = "permission"
  /\ isRecording' = FALSE
  /\ isLoading' = FALSE
  /\ ops' = [ops EXCEPT ![i].pc = "done", ![i].res = "err"]
  /\ ev' = Event("denied", i, DeniedAlerts)
  /\ UNCHANGED <<mounted, capability, recognition, transcription,
                 savedTranscriptions, showDeleteConfirm, recState, handlers,
                 table, nextId>>

\* recognition.onresult: the joined transcript replaces the draft
OnResult(d) ==
  /\ handlers /\ recState \in {"started", "stopping"}
  /\ transcription' = d
  /\ ev' = Event("result", 0, FALSE)
  /\ UNCHANGED <<mounted, capability, recognition, isRecording,
                 savedTranscriptions, isLoading, showDeleteConfirm, recState,
                 handlers, table, nextId, ops>>

OnErrorAlertAlways(code) == TRUE

\* if (event.error === 'not-allowed') alert(...)
OnErrorAlert(code) == code = "not-allowed"

\* recognition.onerror; the session ends after an error
OnError(code) ==
  /\ handlers /\ recState \in {"started", "stopping"}
  /\ isRecording' = FALSE
  /\ isLoading' = FALSE
  /\ recState' = "idle"
  /\ ev' = [Event("error", 0, OnErrorAlert(code)) EXCEPT !.code = code]
  /\ UNCHANGED <<mounted, capability, recognition, transcription,
                 savedTranscriptions, showDeleteConfirm, handlers, table,
                 nextId, ops>>

\* the capability ends the session (after stop(), or by itself); no onend handler
RecEnd ==
  /\ recState \in {"started", "stopping"}
  /\ recState' = "idle"
  /\ ev' = Event("end", 0, FALSE)
  /\ UNCHANGED <<mounted, capability, recognition, isRecording, transcription,
                 savedTranscriptions, isLoading, showDeleteConfirm, handlers,
                 table, nextId, ops>>

\* stopRecording up to its first await (or its early return)
stopRecording ==
  /\ recState' = IF recognition /\ recState = "started" THEN "stopping" ELSE recState
  /\ IF IsBlank(transcription)
       THEN /\ isRecording' = FALSE
            /\ isLoading' = isLoading
            /\ Reserved < MaxOps
            /\ ops' = Append(ops, [NewOp("stop") EXCEPT !.text = transcription])
       ELSE /\ isRecording' = isRecording
            /\ isLoading' = TRUE
            /\ Reserved + 1 < MaxOps
            /\ ops' = Append(ops, [NewOp("stop") EXCEPT !.text = transcription,
                                     !.pc = "probe", !.probes = 1])
  /\ ev' = Event("stop", Len(ops) + 1, FALSE)
  /\ UNCHANGED <<mounted, capability, recognition, transcription,
                 savedTranscriptions, showDeleteConfirm, handlers, table,
                 nextId>>

\* the record button while it shows "Stop Recording"
ClickStop ==
  /\ mounted /\ ~isLoading /\ isRecording
  /\ stopRecording

----------------------------------------------------------------------------
(* The store: each request is answered once; Outcomes are a result without   *)
(* error, a result with error, and a rejected call                           *)

Outcomes == {"ok", "err", "throw"}

Awaiting(i, call) == ops[i].pc = call /\ ops[i].resp = "none"

\* select('count')
StoreProbe(i, out) ==
  /\ Awaiting(i, "probe")
  /\ ops' = [ops EXCEPT ![i].resp = out, ![i].probeRes = out]
  /\ ev' = Event("store", i, FALSE)
  /\ UNCHANGED <<mounted, capability, recognition, isRecording, transcription,
                 savedTranscriptions, isLoading, showDeleteConfirm, recState,
                 handlers, table, nextId>>

\* insert([{text, created_at}]): the id comes from the sequence
StoreInsert(i, out) ==
  /\ Awaiting(i, "insert")
  /\ ops' = [ops EXCEPT ![i].resp = out, ![i].res = out]
  /\ IF out = "ok"
       THEN /\ table' = table \cup {[id |-> nextId, text |-> ops[i].insText,
                                     created_at |-> ops[i].insAt]}
            /\ nextId' = nextId + 1
       ELSE UNCHANGED <<table, nextId>>
  /\ ev' = Event("store", i, FALSE)
  /\ UNCHANGED <<mounted, capability, recognition, isRecording, transcription,
                 savedTranscriptions, isLoading, showDeleteConfirm, recState,
                 handlers>>

\* select('*').order('created_at', {ascending: false})
StoreSelect(i, out) ==
  /\ Awaiting(i, "select")
  /\ IF out = "ok"
       THEN \E d \in SelectOrdered(table) :
              ops' = [ops EXCEPT ![i].resp = out, ![i].res = out, ![i].data = d]
       ELSE ops' = [ops EXCEPT ![i].resp = out, ![i].res = out]
  /\ ev' = Event("store", i, FALSE)
  /\ UNCHANGED <<mounted, capability, recognition, isRecording, transcription,
                 savedTranscriptions, isLoading, showDeleteConfirm, recState,
                 handlers, table, nextId>>

\* delete().eq('id', id)
StoreDelete(i, out) ==
  /\ Awaiting(i, "delete")
  /\ ops' = [ops EXCEPT ![i].resp = out, ![i].res = out]
  /\ table' = IF out = "ok" THEN {r \in table : r.id # ops[i].id} ELSE table
  /\ ev' = Event("store", i, FALSE)
  /\ UNCHANGED <<mounted, capability, recognition, isRecording, transcription,
                 savedTranscriptions, isLoading, showDeleteConfirm, recState,
                 handlers, nextId>>

----------------------------------------------------------------------------
(* Persistence: the continuations of the operations after each await *)

Answered(i, kind, call) ==
  /\ ops[i].kind = kind /\ ops[i].pc = call /\ ops[i].resp # "none"

InsertTextLive(o) == transcription

\* text: transcription, the draft of the render stopRecording was called in
InsertText(o) == o.text

StopFinallyKeepDraft(d) == d

\* finally { ...; setTranscription('') }
StopFinallyDraft(d) == <<>>

StopProbeAbortNever(out) == FALSE

\* if (connectionError) { ...; return; }, or the await threw
StopProbeAbort(out) == out # "ok"

\* stopRecording after its probe; t is new Date() of the insert
StopAfterProbe(i, t) ==
  /\ Answered(i, "stop", "probe")
  /\ IF StopProbeAbort(ops[i].resp)
       THEN /\ ops' = [ops EXCEPT ![i].pc = "done", ![i].resp = "none"]
            /\ isLoading' = FALSE
            /\ isRecording' = FALSE
            /\ transcription' = StopFinallyDraft(transcription)
       ELSE /\ ops' = [ops EXCEPT ![i].pc = "insert", ![i].resp = "none",
                                  ![i].inserts = @ + 1,
                                  ![i].insText = InsertText(ops[i]),
                                  ![i].insAt = t]
            /\ UNCHANGED <<isLoading, isRecording, transcription>>
  /\ ev' = Event("stopProbe", i, StopProbeAbort(ops[i].resp))
  /\ UNCHANGED <<mounted, capability, recognition, savedTranscriptions,
                 showDeleteConfirm, recState, handlers, table, nextId>>

\* stopRecording after its insert: reload on success, alert otherwise; finally
StopAfterInsert(i) ==
  /\ Answered(i, "stop", "insert")
  /\ IF ops[i].resp = "ok"
       THEN ops' = Append([ops EXCEPT ![i].pc = "done", ![i].resp = "none"], NewLoad(i))
       ELSE ops' = [ops EXCEPT ![i].pc = "done", ![i].resp = "none"]
  /\ isLoading' = FALSE
  /\ isRecording' = FALSE
  /\ transcription' = StopFinallyDraft(transcription)
  /\ ev' = Event("stopInsert", i, ops[i].resp # "ok")
  /\ UNCHANGED <<mounted, capability, recognition, savedTranscriptions,
                 showDeleteConfirm, recState, handlers, table, nextId>>

LoadFinallyKeepLoading(l) == l

\* finally { setIsLoading(false); }
LoadFinallyLoading(l) == FALSE

LoadProbeAbortNever(out) == FALSE

\* if (connectionError) { ...; return; }, or the await threw
LoadProbeAbort(out) == out # "ok"

\* loadSavedTranscriptions after its probe
LoadAfterProbe(i) ==
  /\ Answered(i, "load", "probe")
  /\ IF LoadProbeAbort(ops[i].resp)
       THEN /\ ops' = [ops EXCEPT ![i].pc = "done", ![i].resp = "none"]
            /\ isLoading' = LoadFinallyLoading(isLoading)
       ELSE /\ ops' = [ops EXCEPT ![i].pc = "select", ![i].resp = "none",
                                  ![i].selects = @ + 1]
            /\ isLoading' = isLoading
  /\ ev' = Event("loadProbe", i, FALSE)
  /\ UNCHANGED <<mounted, capability, recognition, isRecording, transcription,
                 savedTranscriptions, showDeleteConfirm, recState, handlers,
                 table, nextId>>

SetSavedMerge(old, data) == old \o data

\* setSavedTranscriptions(data || []): the list is replaced by the answer
SetSaved(old, data) == data

\* loadSavedTranscriptions after its select
LoadAfterSelect(i) ==
  /\ Answered(i, "load", "select")
  /\ savedTranscriptions' =
       IF ops[i].resp = "ok" THEN SetSaved(savedTranscriptions, ops[i].data)
                             ELSE savedTranscriptions
  /\ ops' = [ops EXCEPT ![i].pc = "done", ![i].resp = "none", ![i].data = <<>>]
  /\ isLoading' = LoadFinallyLoading(isLoading)
  /\ ev' = Event("loadSelect", i, FALSE)
  /\ UNCHANGED <<mounted, capability, recognition, isRecording, transcription,
                 showDeleteConfirm, recState, handlers, table, nextId>>

----------------------------------------------------------------------------
(* Delete with confirmation *)

Rendered(id) == id \in Ids(savedTranscriptions)

\* the delete trigger of an unarmed row
Arm(id) ==
  /\ mounted /\ Rendered(id) /\ showDeleteConfirm # id
  /\ showDeleteConfirm' = id
  /\ ev' = Event("arm", id, FALSE)
  /\ UNCHANGED <<mounted, capability, recognition, isRecording, transcription,
                 savedTranscriptions, isLoading, recState, handlers, table,
                 nextId, ops>>

CancelKeep(id) == id

\* onClick={() => setShowDeleteConfirm(null)}
CancelValue(id) == None

\* Cancel of the armed row
Cancel(id) ==
  /\ mounted /\ Rendered(id) /\ showDeleteConfirm = id
  /\ showDeleteConfirm' = CancelValue(id)
  /\ ev' = Event("cancel", id, FALSE)
  /\ UNCHANGED <<mounted, capability, recognition, isRecording, transcription,
                 savedTranscriptions, isLoading, recState, handlers, table,
                 nextId, ops>>

\* deleteTranscription(id) up to its await: the delete is issued, without a probe
deleteTranscription(id) ==
  /\ Reserved + 1 < MaxOps
  /\ isLoading' = TRUE
  /\ ops' = Append(ops, [NewOp("delete") EXCEPT !.pc = "delete", !.id = id,
                                                 !.deletes = 1])
  /\ ev' = Event("delete", Len(ops) + 1, FALSE)
  /\ UNCHANGED <<mounted, capability, recognition, isRecording, transcription,
                 savedTranscriptions, showDeleteConfirm, recState, handlers,
                 table, nextId>>

\* Confirm of the armed row, disabled while loading
ClickConfirm(id) ==
  /\ mounted /\ Rendered(id) /\ showDeleteConfirm = id /\ ~isLoading
  /\ deleteTranscription(id)

DeleteFinallyOnSuccess(out, pending) == IF out = "ok" THEN None ELSE pending

\* finally { ...; setShowDeleteConfirm(null) }
DeleteFinallyPending(out, pending) == None

\* deleteTranscription after its delete: reload on success, alert otherwise; finally
DeleteAfterDelete(i) ==
  /\ Answered(i, "delete", "delete")
  /\ IF ops[i].resp = "ok"
       THEN ops' = Append([ops EXCEPT ![i].pc = "done", ![i].resp = "none"], NewLoad(i))
       ELSE ops' = [ops EXCEPT ![i].pc = "done", ![i].resp = "none"]
  /\ isLoading' = FALSE
  /\ showDeleteConfirm' = DeleteFinallyPending(ops[i].resp, showDeleteConfirm)
  /\ ev' = Event("deleteDone", i, ops[i].resp # "ok")
  /\ UNCHANGED <<mounted, capability, recognition, isRecording, transcription,
                 savedTranscriptions, recState, handlers, table, nextId>>

----------------------------------------------------------------------------
OpIds == 1..Len(ops)
RowIds == 1..(nextId - 1)

Next ==
  \/ Mount
  \/ ClickStart
  \/ \E i \in OpIds : StartGranted(i)
  \/ \E i \in OpIds : StartDenied(i)
  \/ \E d \in Drafts : OnResult(d)
  \/ \E c \in ErrorCodes : OnError(c)
  \/ RecEnd
  \/ ClickStop
  \/ \E i \in OpIds, out \in Outcomes : StoreProbe(i, out)
  \/ \E i \in OpIds, out \in Outcomes : StoreInsert(i, out)
  \/ \E i \in OpIds, out \in Outcomes : StoreSelect(i, out)
  \/ \E i \in OpIds, out \in Outcomes : StoreDelete(i, out)
  \/ \E i \in OpIds, t \in Times : StopAfterProbe(i, t)
  \/ \E i \in OpIds : StopAfterInsert(i)
  \/ \E i \in OpIds : LoadAfterProbe(i)
  \/ \E i \in OpIds : LoadAfterSelect(i)
  \/ \E id \in RowIds : Arm(id)
  \/ \E id \in RowIds : Cancel(id)
  \/ \E id \in RowIds : ClickConfirm(id)
  \/ \E i \in OpIds : DeleteAfterDelete(i)

Spec == Init /\ [][Next]_vars

\* the tables of a page that has been used: up to one row more
LoadedTables ==
  {{[id |-> i, text |-> <<"a">>, created_at |-> InitTime(i)] : i \in 1..n} :
     n \in 0..(MaxInitRows + 1)}

\* the page after its mount load has succeeded and returned; ops counts the
\* calls made from here on
InitLoaded ==
  /\ mounted = TRUE
  /\ capability \in BOOLEAN
  /\ recognition = capability
  /\ isRecording = FALSE
  /\ transcription = <<>>
  /\ table \in LoadedTables
  /\ savedTranscriptions \in SelectOrdered(table)
  /\ isLoading = FALSE
  /\ showDeleteConfirm = None
  /\ recState = "idle"
  /\ handlers = FALSE
  /\ nextId = 1 + Cardinality(table)
  /\ ops = <<>>
  /\ ev = Event("loadSelect", 0, FALSE)

NextLoaded ==
  \/ ClickStart
  \/ \E i \in OpIds : StartGranted(i)
  \/ \E i \in OpIds : StartDenied(i)
  \/ \E d \in Drafts : OnResult(d)
  \/ \E c \in ErrorCodes : OnError(c)
  \/ RecEnd
  \/ ClickStop
  \/ \E i \in OpIds, out \in Outcomes : StoreProbe(i, out)
  \/ \E i \in OpIds, out \in Outcomes : StoreInsert(i, out)
  \/ \E i \in OpIds, out \in Outcomes : StoreSelect(i, out)
  \/ \E i \in OpIds, out \in Outcomes : StoreDelete(i, out)
  \/ \E i \in OpIds, t \in Times : StopAfterProbe(i, t)
  \/ \E i \in OpIds : StopAfterInsert(i)
  \/ \E i \in OpIds : LoadAfterProbe(i)
  \/ \E i \in OpIds : LoadAfterSelect(i)
  \/ \E id \in RowIds : Arm(id)
  \/ \E id \in RowIds : Cancel(id)
  \/ \E id \in RowIds : ClickConfirm(id)
  \/ \E i \in OpIds : DeleteAfterDelete(i)

SpecLoaded == InitLoaded /\ [][NextLoaded]_vars

----------------------------------------------------------------------------
(* Properties *)

\* empty or whitespace only
WhitespaceOnly(s) == \A k \in 1..Len(s) : s[k] = " "

StoreCalls(o) == o.probes + o.inserts + o.selects + o.deletes

Finishes(i) == ops[i].pc # "done" /\ ops'[i].pc = "done"

SavesDraft(o) == o.kind = "stop" /\ ~WhitespaceOnly(o.text)

ReloadOf(i, j) == ops[j].kind = "load" /\ ops[j].parent = i

\* C1: a stopRecording called with an empty or whitespace-only draft issues no
\* store call (no probe, no insert, no select), has returned, and leaves
\* isRecording = false
C1_BlankStopNoStoreCall ==
  [][(ev'.name = "stop" /\ WhitespaceOnly(transcription))
       => /\ Len(ops') = Len(ops) + 1
          /\ ops'[ev'.arg].kind = "stop"
          /\ ops'[ev'.arg].pc = "done"
          /\ StoreCalls(ops'[ev'.arg]) = 0
          /\ isRecording' = FALSE]_vars

C1_Witness ==
  /\ ev.name = "stop"
  /\ ops[ev.arg].text = <<" ">>
  /\ ops[ev.arg].pc = "done"
  /\ ~isRecording

\* C2 as stated: every finished stopRecording with a non-empty draft has issued
\* exactly one insert with the draft of its call and has started the reload
C2_EveryStopInserts ==
  \A i \in OpIds :
    (SavesDraft(ops[i]) /\ ops[i].pc = "done")
      => /\ ops[i].inserts = 1
         /\ ops[i].insText = ops[i].text
         /\ \E j \in OpIds : ReloadOf(i, j)

\* C2 amended: a stopRecording with a non-empty draft issues its one insert, with
\* the draft of its call as text, exactly when its probe succeeded (none
\* otherwise); it starts a reload exactly when that insert succeeded, and a
\* reload issues its one select exactly when its own probe succeeded
C2_InsertAfterProbeThenReload ==
  /\ \A i \in OpIds :
       SavesDraft(ops[i])
         => /\ ops[i].inserts =
                 (IF ops[i].probeRes = "ok" /\ ops[i].pc # "probe" THEN 1 ELSE 0)
            /\ (ops[i].inserts = 1 => ops[i].insText = ops[i].text)
            /\ (ops[i].pc = "done"
                  => ((\E j \in OpIds : ReloadOf(i, j)) <=> ops[i].res = "ok"))
            /\ Cardinality({j \in OpIds : ReloadOf(i, j)}) <= 1
  /\ \A j \in OpIds :
       ops[j].kind = "load"
         => ops[j].selects =
              (IF ops[j].probeRes = "ok" /\ ops[j].pc # "probe" THEN 1 ELSE 0)

C2_Witness ==
  \E i \in OpIds : \E j \in OpIds :
    /\ SavesDraft(ops[i]) /\ ops[i].pc = "done" /\ ops[i].res = "ok"
    /\ ops[i].text = <<"a", " ">> /\ ops[i].insText = <<"a", " ">>
    /\ ReloadOf(i, j) /\ ops[j].selects = 1 /\ ops[j].pc = "done"

\* C3: an operation whose probe returned an error issues no insert and no select
C3_FailedProbeShortCircuits ==
  \A i \in OpIds :
    ops[i].probeRes = "err"
      => ops[i].inserts = 0 /\ ops[i].selects = 0 /\ ops[i].deletes = 0

C3_Witness ==
  \E i \in OpIds : \E j \in OpIds :
    /\ ops[i].kind = "stop" /\ ops[i].probeRes = "err" /\ ops[i].pc = "done"
    /\ ops[j].kind = "load" /\ ops[j].probeRes = "err" /\ ops[j].pc = "done"

\* C4: an operation that has issued an insert, a select of the list or a delete
\* has first had a probe succeed
C4_ProbeBeforeEveryCall ==
  \A i \in OpIds :
    (ops[i].inserts + ops[i].selects + ops[i].deletes > 0) => ops[i].probeRes = "ok"

C4_Witness ==
  \E i \in OpIds : ops[i].kind = "delete" /\ ops[i].deletes = 1 /\ ops[i].probes = 0

\* C5 as stated: when the reload started by a successful deleteTranscription(id)
\* finishes, showDeleteConfirm is none and the saved list holds no record with
\* that id
C5_DeleteThenReloadClean ==
  [][\A j \in OpIds :
       (ops[j].kind = "load" /\ ops[j].parent # 0 /\ Finishes(j)
          /\ ops[ops[j].parent].kind = "delete")
         => /\ showDeleteConfirm' = None
            /\ ops[ops[j].parent].id \notin Ids(savedTranscriptions')]_vars

\* C5 amended: when a deleteTranscription(id) whose store delete succeeded
\* finishes, showDeleteConfirm is none; and when the reload it started finishes
\* after a successful select, the saved list holds no record with that id
C5_DeleteThenLoadedClean ==
  [][/\ \A i \in OpIds :
          (ops[i].kind = "delete" /\ Finishes(i) /\ ops[i].resp = "ok")
            => showDeleteConfirm' = None
     /\ \A j \in OpIds :
          (ops[j].kind = "load" /\ ops[j].parent # 0 /\ Finishes(j)
             /\ ops[ops[j].parent].kind = "delete"
             /\ ops[j].pc = "select" /\ ops[j].resp = "ok")
            => ops[ops[j].parent].id \notin Ids(savedTranscriptions')]_vars

C5_Witness ==
  /\ ev.name = "loadSelect"
  /\ ops[ev.arg].res = "ok"
  /\ ops[ev.arg].parent # 0
  /\ ops[ops[ev.arg].parent].kind = "delete"
  /\ ops[ops[ev.arg].parent].res = "ok"
  /\ ops[ops[ev.arg].parent].id \notin Ids(savedTranscriptions)
  /\ showDeleteConfirm = None

\* C6: at most one row is armed in every state; after Cancel no row is armed;
\* after arming a row exactly that row is armed
C6_SingleArmedRow ==
  [][/\ Cardinality(ArmedRows(savedTranscriptions', showDeleteConfirm')) <= 1
     /\ (ev'.name = "cancel"
           => ArmedRows(savedTranscriptions', showDeleteConfirm') = {})
     /\ (ev'.name = "arm"
           => ArmedRows(savedTranscriptions', showDeleteConfirm')
                = {k \in 1..Len(savedTranscriptions') :
                     savedTranscriptions'[k].id = ev'.arg})]_vars

C6_Witness ==
  /\ ev.name = "arm"
  /\ Len(savedTranscriptions) = 2
  /\ ArmedRows(savedTranscriptions, showDeleteConfirm) = {2}

\* C7: the saved list is sorted by created_at descending in every state,
\* strictly where the timestamps differ
C7_SavedListSortedDesc ==
  \A k \in 1..(Len(savedTranscriptions) - 1) :
    /\ savedTranscriptions[k].created_at >= savedTranscriptions[k + 1].created_at
    /\ (savedTranscriptions[k].created_at # savedTranscriptions[k + 1].created_at
          => savedTranscriptions[k].created_at > savedTranscriptions[k + 1].created_at)

C7_Witness ==
  /\ Len(savedTranscriptions) = 2
  /\ savedTranscriptions[1].created_at > savedTranscriptions[2].created_at
  /\ savedTranscriptions[1].id > savedTranscriptions[2].id

\* C8: startRecording without a handle requests no microphone permission, raises
\* no alert, has returned, and leaves isRecording, isLoading, the draft, the
\* saved list and showDeleteConfirm unchanged
C8_StartWithoutHandleInert ==
  [][(ev'.name = "start" /\ ~recognition)
       => /\ ~ops'[ev'.arg].mic
          /\ ops'[ev'.arg].pc = "done"
          /\ ~ev'.alert
          /\ UNCHANGED <<isRecording, isLoading, transcription,
                         savedTranscriptions, showDeleteConfirm>>]_vars

C8_Witness ==
  /\ ev.name = "start"
  /\ mounted /\ ~capability /\ ~recognition
  /\ ops[ev.arg].kind = "start" /\ ops[ev.arg].pc = "done"

\* C9: when a deleteTranscription call finishes, with any outcome,
\* showDeleteConfirm is none
C9_DeleteAlwaysDisarms ==
  [][\A i \in OpIds :
       (ops[i].kind = "delete" /\ Finishes(i)) => showDeleteConfirm' = None]_vars

C9_Witness ==
  \E i \in OpIds : \E j \in OpIds :
    /\ ops[i].kind = "delete" /\ ops[i].pc = "done" /\ ops[i].res = "err"
    /\ ops[j].kind = "delete" /\ ops[j].pc = "done" /\ ops[j].res = "throw"
    /\ showDeleteConfirm = None

\* C10: when a stopRecording with a non-empty draft finishes without having
\* saved (probe error, insert error, exception), it has alerted, the draft is
\* empty and isRecording = false
C10_FailedSaveAlertsAndClears ==
  [][\A i \in OpIds :
       (SavesDraft(ops[i]) /\ Finishes(i) /\ ops[i].resp # "ok")
         => /\ ev'.alert
            /\ transcription' = <<>>
            /\ isRecording' = FALSE]_vars

C10_Witness ==
  /\ ev.name = "stopInsert" /\ ev.alert
  /\ SavesDraft(ops[ev.arg]) /\ ops[ev.arg].pc = "done"
  /\ ops[ev.arg].probeRes = "ok" /\ ops[ev.arg].res = "err"
  /\ transcription = <<>> /\ ~isRecording

\* a store request that has been issued and not answered yet
Unanswered(o) == o.pc \in {"probe", "insert", "select", "delete"} /\ o.resp = "none"

\* C11: at most one store request (probe, insert, select, delete) is unanswered
\* at any time
C11_OneRequestInFlight ==
  Cardinality({i \in OpIds : Unanswered(ops[i])}) <= 1

C11_Witness ==
  \E i \in OpIds : \E j \in OpIds :
    /\ ops[i].kind = "load" /\ ops[i].parent # 0 /\ Unanswered(ops[i])
    /\ ops[j].kind = "delete" /\ ops[j].pc = "delete" /\ Unanswered(ops[j])

\* C12: whenever no operation is in progress, isLoading is false
C12_IdleNotLoading ==
  (\A i \in OpIds : ~Active(ops[i])) => ~isLoading

C12_Witness ==
  /\ \A i \in OpIds : ~Active(ops[i])
  /\ \E i \in OpIds : ops[i].kind = "load" /\ ops[i].probeRes = "err"
  /\ \E i \in OpIds : ops[i].kind = "start" /\ ops[i].res = "err"
  /\ \E i \in OpIds : SavesDraft(ops[i]) /\ ops[i].res = "throw"
  /\ ~isLoading

\* C13: when the permission request of a startRecording call is rejected, the
\* call does not start the recognition, alerts, and returns with
\* isRecording = false and isLoading = false
C13_DeniedStartAlertsAndResets ==
  [][ev'.name = "denied"
       => /\ ops[ev'.arg].kind = "start" /\ Finishes(ev'.arg)
          /\ recState' = recState
          /\ ev'.alert
          /\ isRecording' = FALSE
          /\ isLoading' = FALSE]_vars

C13_Witness ==
  /\ ev.name = "denied" /\ ev.alert
  /\ ops[ev.arg].kind = "start" /\ ops[ev.arg].mic /\ ops[ev.arg].res = "err"
  /\ recState = "idle" /\ ~isRecording /\ ~isLoading

\* C14: every recognition error event leaves isRecording = false, whatever its
\* code, and alerts exactly when the code is not-allowed
C14_ErrorEventResetsRecording ==
  [][ev'.name = "error"
       => /\ isRecording' = FALSE
          /\ (ev'.alert <=> ev'.code = "not-allowed")]_vars

C14_Witness ==
  /\ ev.name = "error" /\ ev.code = "network" /\ ~ev.alert
  /\ ~isRecording
  /\ \E i \in OpIds : ops[i].kind = "start" /\ ops[i].res = "ok"

\* the call ops'[i] returns in this step (at once, or after its last await)
Returns(i) == ops'[i].pc = "done" /\ (i > Len(ops) \/ ops[i].pc # "done")

\* C15: when a stopRecording call returns, on any path, the draft is empty
C15_DraftClearedOnStop ==
  [][\A i \in 1..Len(ops') :
       (ops'[i].kind = "stop" /\ Returns(i)) => transcription' = <<>>]_vars

C15_Witness ==
  /\ ev.name = "stop"
  /\ ops[ev.arg].pc = "done"
  /\ ops[ev.arg].text = <<" ">>
  /\ transcription = <<" ">>

\* C16: while an operation is in progress (start awaiting the permission,
\* stop-and-save, load, delete), isLoading is true
C16_BusyWhileInProgress ==
  (\E i \in OpIds : Active(ops[i])) => isLoading

C16_Witness ==
  /\ ~isLoading
  /\ \E i \in OpIds : ops[i].kind = "load" /\ ops[i].parent # 0 /\ Unanswered(ops[i])

\* C17: no startRecording call begins while an earlier one is in progress or
\* while the recognition is streaming, and recognition.start() is never called
\* on an instance that is streaming
C17_NoReentrantStart ==
  [][/\ (ev'.name = "start" /\ recognition)
          => /\ \A i \in OpIds : ~(ops[i].kind = "start" /\ Active(ops[i]))
             /\ recState # "started"
     /\ (ev'.name = "granted" => recState # "started")]_vars

C17_Witness ==
  /\ ev.name = "granted" /\ ev.alert
  /\ recState = "started"
  /\ Cardinality({i \in OpIds : ops[i].kind = "start" /\ ops[i].pc = "done"}) = 2

\* C18: a loadSavedTranscriptions call that returns after a failed probe or a
\* failed select raises no alert and leaves the saved list as it is; one that
\* returns after a successful select has set the list to the select's answer
C18_LoadFailsSilentlyOrReplaces ==
  [][\A j \in OpIds :
       (ops[j].kind = "load" /\ Finishes(j))
         => IF ops[j].probeRes = "ok" /\ ops[j].pc = "select" /\ ops[j].resp = "ok"
              THEN savedTranscriptions' = ops[j].data
              ELSE /\ ~ev'.alert
                   /\ savedTranscriptions' = savedTranscriptions]_vars

C18_Witness ==
  /\ ev.name = "loadProbe" /\ ~ev.alert
  /\ ops[ev.arg].kind = "load" /\ ops[ev.arg].pc = "done"
  /\ ops[ev.arg].probeRes = "err"
  /\ savedTranscriptions # <<>>
  /\ Ids(savedTranscriptions) # {r.id : r \in table}

\* every store call of the operation was answered without error
StoreCallsOk(o) ==
  /\ (o.probes > 0 => o.probeRes = "ok")
  /\ (o.inserts + o.selects + o.deletes > 0 => o.res = "ok")

\* C19: once every operation has returned and every store call has succeeded,
\* the saved list holds exactly the rows of the table
C19_ListEqualsStoreWhenIdle ==
  (/\ mounted
   /\ \A i \in OpIds : ~Active(ops[i]) /\ StoreCallsOk(ops[i]))
    => /\ {savedTranscriptions[k] : k \in 1..Len(savedTranscriptions)} = table
       /\ Len(savedTranscriptions) = Cardinality(table)

C19_Witness ==
  /\ \A i \in OpIds : ~Active(ops[i]) /\ StoreCallsOk(ops[i])
  /\ Cardinality({i \in OpIds : ops[i].kind = "delete"}) = 2
  /\ Cardinality({i \in OpIds : ops[i].kind = "load"}) = 2
  /\ table = {}
  /\ savedTranscriptions # <<>>

=============================================================================
